---------------------------- MODULE Spec2Model ----------------------------
(***************************************************************************)
(* A model of .github/scripts/generate_report.py: the YCSB output parser   *)
(* (parse_ycsb_output), the histogram expansion (get_latency_values), the  *)
(* plot and Markdown renderers and the driver that runs them over the five *)
(* configured databases.                                                   *)
(*                                                                         *)
(* Text is modelled character by character: a Python str is a sequence of  *)
(* one-character strings, so that startswith, strip, split, float and int  *)
(* are computed as Python computes them.  A Python value is a tagged       *)
(* record: None, a float, a list or a str.                                 *)
(***************************************************************************)
EXTENDS Integers, Sequences, FiniteSets, TLC

(***************************************************************************)
(* Bounds of the model.                                                    *)
(***************************************************************************)
MaxLines == 3
MaxRows == 2
MaxLatency == 2
MaxCount == 5

(***************************************************************************)
(* String literals of the source.                                          *)
(***************************************************************************)
OVERALL == <<"O","V","E","R","A","L","L">>
UPDATE == <<"U","P","D","A","T","E">>
READ == <<"R","E","A","D">>
K_RunTime == <<"R","u","n","T","i","m","e","(","m","s",")">>
K_Throughput == <<"T","h","r","o","u","g","h","p","u","t","(","o","p","s","/","s","e","c",")">>
K_Operations == <<"O","p","e","r","a","t","i","o","n","s">>
K_AverageLatency == <<"A","v","e","r","a","g","e","L","a","t","e","n","c","y","(","u","s",")">>
K_MinLatency == <<"M","i","n","L","a","t","e","n","c","y","(","u","s",")">>
K_MaxLatency == <<"M","a","x","L","a","t","e","n","c","y","(","u","s",")">>
K_95th == <<"9","5","t","h","P","e","r","c","e","n","t","i","l","e","L","a","t","e","n","c","y","(","u","s",")">>
K_99th == <<"9","9","t","h","P","e","r","c","e","n","t","i","l","e","L","a","t","e","n","c","y","(","u","s",")">>
K_ReturnOK == <<"R","e","t","u","r","n","=","O","K">>
K_LatencyDistribution == <<"L","a","t","e","n","c","y","D","i","s","t","r","i","b","u","t","i","o","n">>
OverallMarker == <<"[">> \o OVERALL \o <<"]">>
UpdateMarker == <<"[">> \o UPDATE \o <<"]">>
ReadMarker == <<"[">> \o READ \o <<"]">>
OverflowMarker == <<">","1","0","0","0">>
ZeroComma == <<"0",",">>
CommaSpace == <<","," ">>
Comma == <<",">>

(***************************************************************************)
(* Python values.                                                          *)
(***************************************************************************)
None == [t |-> "None"]
PyFloat(x) == [t |-> "float", f |-> x]
PyList(s) == [t |-> "list", l |-> s]
PyStr(s) == [t |-> "str", s |-> s]
ValueError == [t |-> "ValueError"]

\* bool(v): None, 0.0, the empty list and the empty str are false.
Truthy(v) ==
    CASE v.t = "None" -> FALSE
      [] v.t = "float" -> v.f # 0
      [] v.t = "list" -> v.l # <<>>
      [] v.t = "str" -> v.s # <<>>

(***************************************************************************)
(* str methods and the numeric constructors.  The characters of the model  *)
(* are ASCII letters, digits, blank, and punctuation; int and float accept *)
(* blanks around an optionally signed run of digits, and reject every      *)
(* other string over these characters that the model feeds them.           *)
(***************************************************************************)
Digits == <<"0","1","2","3","4","5","6","7","8","9">>

isdigit(c) == \E i \in 1..10 : Digits[i] = c

DigitVal(c) == (CHOOSE i \in 1..10 : Digits[i] = c) - 1

isspace(c) == c = " "

startswith(s, p) == Len(s) >= Len(p) /\ SubSeq(s, 1, Len(p)) = p

Contains(s, c) == \E i \in 1..Len(s) : s[i] = c

RECURSIVE lstrip(_)
lstrip(s) == IF s # <<>> /\ isspace(s[1]) THEN lstrip(Tail(s)) ELSE s

RECURSIVE rstrip(_)
rstrip(s) ==
    IF s # <<>> /\ isspace(s[Len(s)]) THEN rstrip(SubSeq(s, 1, Len(s) - 1)) ELSE s

strip(s) == rstrip(lstrip(s))

\* The index of the first occurrence of sep in s at or after i, or 0.
RECURSIVE find(_, _, _)
find(s, sep, i) ==
    IF i + Len(sep) - 1 > Len(s) THEN 0
    ELSE IF SubSeq(s, i, i + Len(sep) - 1) = sep THEN i
    ELSE find(s, sep, i + 1)

RECURSIVE split(_, _)
split(s, sep) ==
    LET i == find(s, sep, 1)
    IN  IF i = 0 THEN <<s>>
        ELSE <<SubSeq(s, 1, i - 1)>> \o split(SubSeq(s, i + Len(sep), Len(s)), sep)

\* s[1:-1]
Slice1(s) == SubSeq(s, 2, Len(s) - 1)

RECURSIVE DigitsVal(_)
DigitsVal(s) ==
    IF s = <<>> THEN 0
    ELSE 10 * DigitsVal(SubSeq(s, 1, Len(s) - 1)) + DigitVal(s[Len(s)])

AllDigits(s) == s # <<>> /\ \A i \in 1..Len(s) : isdigit(s[i])

\* The integer a numeric literal denotes, or ValueError.
Numeral(s) ==
    LET b == strip(s)
        signed == b # <<>> /\ b[1] \in {"+", "-"}
        d == IF signed THEN Tail(b) ELSE b
    IN  IF ~AllDigits(d) THEN ValueError
        ELSE IF signed /\ b[1] = "-" THEN [t |-> "num", n |-> 0 - DigitsVal(d)]
        ELSE [t |-> "num", n |-> DigitsVal(d)]

int(s) == Numeral(s)

float(s) == LET r == Numeral(s) IN IF r = ValueError THEN ValueError ELSE PyFloat(r.n)

(***************************************************************************)
(* parse_ycsb_output: the record it starts from and its loop body.         *)
(***************************************************************************)
SectionKeys ==
    {K_Operations, K_AverageLatency, K_MinLatency, K_MaxLatency, K_95th, K_99th,
     K_ReturnOK, K_LatencyDistribution}

InitialMetrics ==
    [s \in {OVERALL, UPDATE, READ} |->
        IF s = OVERALL THEN [k \in {K_RunTime, K_Throughput} |-> None]
        ELSE [k \in SectionKeys |->
                IF k = K_LatencyDistribution THEN PyList(<<>>) ELSE None]]

\* m[sec][key] = v
Store(m, sec, key, v) ==
    [m EXCEPT ![sec] =
        [k \in (DOMAIN m[sec]) \cup {key} |-> IF k = key THEN v ELSE m[sec][k]]]

InitialState == [metrics |-> InitialMetrics, current_section |-> None, exc |-> "none"]

Raise(st, e) == [st EXCEPT !.exc = e]

\* Lines 25-28.
OverallBranch(st, line) ==
    LET parts == split(line, CommaSpace)
    IN  IF Len(parts) # 3 THEN st
        ELSE LET r == float(parts[2])
                 t == float(parts[3])
                 m1 == Store(st.metrics, OVERALL, K_RunTime, r)
             IN  IF r = ValueError THEN Raise(st, "ValueError")
                 ELSE IF t = ValueError
                      THEN Raise([st EXCEPT !.metrics = m1], "ValueError")
                 ELSE [st EXCEPT !.metrics = Store(m1, OVERALL, K_Throughput, t)]

\* Line 30: line.split(', ')[0][1:-1]
ExtractSection(line) == PyStr(Slice1(split(line, CommaSpace)[1]))

\* SectionBranch with the current section set only once the line is known to
\* have three fields.
SectionBranchLateSet(st, line) ==
    LET cs == ExtractSection(line)
        parts == split(line, CommaSpace)
        st1 == [st EXCEPT !.current_section = cs]
    IN  IF Len(parts) < 3 THEN st
        ELSE LET v == float(parts[3])
             IN  IF v = ValueError THEN Raise(st1, "ValueError")
                 ELSE IF cs.s \notin DOMAIN st.metrics THEN Raise(st1, "KeyError")
                 ELSE [st1 EXCEPT !.metrics = Store(st.metrics, cs.s, parts[2], v)]

\* Lines 30-33.  The right-hand side float(parts[2]) is evaluated before the
\* subscription metrics[current_section].
SectionBranch(st, line) ==
    LET cs == ExtractSection(line)
        parts == split(line, CommaSpace)
        st1 == [st EXCEPT !.current_section = cs]
    IN  IF Len(parts) < 3 THEN st1
        ELSE LET v == float(parts[3])
             IN  IF v = ValueError THEN Raise(st1, "ValueError")
                 ELSE IF cs.s \notin DOMAIN st.metrics THEN Raise(st1, "KeyError")
                 ELSE [st1 EXCEPT !.metrics = Store(st.metrics, cs.s, parts[2], v)]

\* Line 34, the part in parentheses.
LooksLikeHistogramRow(line) ==
    \/ startswith(line, ZeroComma)
    \/ startswith(line, OverflowMarker)
    \/ (line # <<>> /\ isdigit(line[1]) /\ Contains(line, ","))

\* Line 37: latency_value, count = map(int, line.split(',')).  The unpacking
\* raises ValueError on a field int rejects and on any number of fields but two.
UnpackPair(line) ==
    LET fields == split(line, Comma)
    IN  IF int(fields[1]) = ValueError THEN ValueError
        ELSE IF Len(fields) < 2 THEN ValueError
        ELSE IF int(fields[2]) = ValueError THEN ValueError
        ELSE IF Len(fields) > 2 THEN ValueError
        ELSE [t |-> "pair", p |-> <<int(fields[1]).n, int(fields[2]).n>>]

\* HistogramBranch without the inner try: the ValueError of a row leaves the loop.
HistogramBranchNoTry(st, line) ==
    IF ~(st.current_section.t = "str" /\ st.current_section.s \in {UPDATE, READ}) THEN st
    ELSE LET r == UnpackPair(line)
             sec == st.current_section.s
             d == st.metrics[sec][K_LatencyDistribution]
         IN  IF r = ValueError THEN Raise(st, "ValueError")
             ELSE IF d.t # "list" THEN Raise(st, "AttributeError")
             ELSE [st EXCEPT !.metrics =
                        Store(st.metrics, sec, K_LatencyDistribution,
                              PyList(Append(d.l, r.p)))]

\* Lines 35-41.  Only ValueError is caught here; appending to an entry that is
\* no list raises AttributeError.
HistogramBranch(st, line) ==
    IF ~(st.current_section.t = "str" /\ st.current_section.s \in {UPDATE, READ}) THEN st
    ELSE LET r == UnpackPair(line)
             sec == st.current_section.s
             d == st.metrics[sec][K_LatencyDistribution]
         IN  IF r = ValueError THEN st
             ELSE IF d.t # "list" THEN Raise(st, "AttributeError")
             ELSE [st EXCEPT !.metrics =
                        Store(st.metrics, sec, K_LatencyDistribution,
                              PyList(Append(d.l, r.p)))]

\* Which branch of the if/elif chain of lines 24-34 a stripped line takes.
Branch(st, line) ==
    IF startswith(line, OverallMarker) THEN "overall"
    ELSE IF startswith(line, UpdateMarker) \/ startswith(line, ReadMarker) THEN "section"
    ELSE IF Truthy(st.current_section) /\ LooksLikeHistogramRow(line) THEN "histogram"
    ELSE "other"

\* A byte that is no valid text: the file object raises UnicodeDecodeError
\* when the loop of line 22 asks for a line that holds it.
InvalidByte == "0xFF"

\* One iteration of the loop, lines 22-41, on one raw line.
ParseLine(st, raw) ==
    LET line == strip(raw)
        b == Branch(st, line)
    IN  IF Contains(raw, InvalidByte) THEN Raise(st, "UnicodeDecodeError")
        ELSE CASE b = "overall" -> OverallBranch(st, line)
               [] b = "section" -> SectionBranch(st, line)
               [] b = "histogram" -> HistogramBranch(st, line)
               [] b = "other" -> st

\* Handler without the except Exception clause.
HandlerFileNotFoundOnly(e) ==
    IF e = "FileNotFoundError" THEN "FileNotFoundError" ELSE "uncaught"

\* Lines 42-47: the except clause an exception raised in the try block meets.
Handler(e) ==
    IF e = "FileNotFoundError" THEN "FileNotFoundError"
    ELSE IF e \in {"ValueError", "KeyError", "AttributeError", "PermissionError",
                    "UnicodeDecodeError"}
         THEN "Exception"
    ELSE "uncaught"


\* The value parse_ycsb_output returns for the state its try block ended in.
PyDict(m) == [t |-> "dict", d |-> m]

RECURSIVE ParseLines(_, _)
ParseLines(st, lines) ==
    IF lines = <<>> \/ st.exc # "none" THEN st
    ELSE ParseLines(ParseLine(st, Head(lines)), Tail(lines))

\* Line 21: open(filepath, 'r').
OpenError(file) ==
    CASE file.kind = "missing" -> "FileNotFoundError"
      [] file.kind = "denied" -> "PermissionError"
      [] file.kind = "ok" -> "none"

\* parse_ycsb_output returning the untouched record, not None, from its except
\* clauses.
parse_ycsb_outputEmptyRecord(file) ==
    LET e0 == OpenError(file)
        st == IF e0 # "none" THEN Raise(InitialState, e0)
              ELSE ParseLines(InitialState, file.lines)
    IN  IF st.exc = "none" THEN PyDict(st.metrics)
        ELSE IF Handler(st.exc) = "uncaught" THEN [t |-> "raise", e |-> st.exc]
        ELSE PyDict(InitialMetrics)

\* The whole function on one file: None, the record, or an exception that
\* no except clause caught.
parse_ycsb_output(file) ==
    LET e0 == OpenError(file)
        st == IF e0 # "none" THEN Raise(InitialState, e0)
              ELSE ParseLines(InitialState, file.lines)
    IN  IF st.exc = "none" THEN PyDict(st.metrics)
        ELSE IF Handler(st.exc) = "uncaught" THEN [t |-> "raise", e |-> st.exc]
        ELSE None

(***************************************************************************)
(* The input files of the model.                                           *)
(***************************************************************************)
Join3(a, b, c) == a \o CommaSpace \o b \o CommaSpace \o c

CanonicalRunTime == Join3(OverallMarker, K_RunTime, <<"1","2">>)
CanonicalThroughput == Join3(OverallMarker, K_Throughput, <<"3","4">>)
NumericOverall == Join3(OverallMarker, <<"1","2">>, <<"3","4">>)
UpdateOperations0 == Join3(UpdateMarker, K_Operations, <<"0">>)
UpdateAverage7 == Join3(UpdateMarker, K_AverageLatency, <<"7">>)
ReadOperations5 == Join3(ReadMarker, K_Operations, <<"5">>)
UpdateTwoFields == UpdateMarker \o CommaSpace \o K_Operations
UpdateJunk == UpdateMarker \o <<"x">>
ReadJunk3 == Join3(ReadMarker \o <<"x">>, <<"k">>, <<"1">>)
UpdateNonNumeric == Join3(UpdateMarker, K_Operations, <<"a","b","c">>)
UpdateClobber == Join3(UpdateMarker, K_LatencyDistribution, <<"7">>)
Row15 == <<"1",",","5">>
Row23 == <<"2",",","3">>
RowOverflow == OverflowMarker \o <<",","0">>
RowNonInteger == <<"1",",","x">>
RowThreeFields == <<"1",",","2",",","3">>
RowNegative == <<"1",",","-","2">>
RowPadded00 == <<" ","0",",","0"," ">>
OtherLine == <<"h","e","l","l","o">>
UndecodableLine == <<"h", InvalidByte>>

InputLines ==
    {CanonicalRunTime, CanonicalThroughput, NumericOverall, UpdateOperations0,
     UpdateAverage7, ReadOperations5, ReadMarker, UpdateTwoFields, UpdateJunk,
     ReadJunk3, UpdateNonNumeric, UpdateClobber, Row15, Row23, RowOverflow,
     RowNonInteger, RowThreeFields, RowNegative, RowPadded00, OtherLine,
     UndecodableLine}

\* What open() meets at the file path.
FileKinds == {"ok", "missing", "denied"}

OkFile(lines) == [kind |-> "ok", lines |-> lines]
MissingFile == [kind |-> "missing", lines |-> <<>>]
DeniedFile == [kind |-> "denied", lines |-> <<>>]

(***************************************************************************)
(* get_latency_values.                                                     *)
(***************************************************************************)
\* [x] * n with one repetition too few.
RepeatOneLess(x, n) == IF n <= 1 THEN <<>> ELSE [i \in 1..(n - 1) |-> x]

\* [x] * n, which is empty for n <= 0.
Repeat(x, n) == IF n <= 0 THEN <<>> ELSE [i \in 1..n |-> x]

\* Lines 50-55, on a list of (latency, count) pairs.
RECURSIVE get_latency_values(_)
get_latency_values(latency_distribution) ==
    IF latency_distribution = <<>> THEN <<>>
    ELSE Repeat(latency_distribution[1][1], latency_distribution[1][2])
            \o get_latency_values(Tail(latency_distribution))

(***************************************************************************)
(* The driver's configuration, lines 125-131 and 139-140, in insertion     *)
(* order.                                                                  *)
(***************************************************************************)
PostgreSQL == <<"P","o","s","t","g","r","e","S","Q","L">>
CockroachDB == <<"C","o","c","k","r","o","a","c","h","D","B">>
FoundationDB == <<"F","o","u","n","d","a","t","i","o","n","D","B">>
SQLite == <<"S","Q","L","i","t","e">>
DuckDB == <<"D","u","c","k","D","B">>

db_results_files == <<PostgreSQL, CockroachDB, FoundationDB, SQLite, DuckDB>>

NA == <<"N","/","A">>

(***************************************************************************)
(* generate_plot, lines 57-87.  all_metrics is the list of the mapping's   *)
(* items, in insertion order.                                              *)
(***************************************************************************)
\* Line 63.
Selected(metrics_data) ==
    /\ metrics_data.t = "dict"
    /\ Truthy(metrics_data.d[UPDATE][K_Operations])
    /\ Truthy(metrics_data.d[UPDATE][K_LatencyDistribution])

\* Lines 62-67 from item i on: the labels and samples collected, or the
\* TypeError of iterating a LatencyDistribution that is no list.
RECURSIVE CollectSamples(_, _, _)
CollectSamples(all_metrics, i, acc) ==
    IF i > Len(all_metrics) THEN acc
    ELSE LET db_name == all_metrics[i][1]
             metrics_data == all_metrics[i][2]
         IN  IF ~Selected(metrics_data) THEN CollectSamples(all_metrics, i + 1, acc)
             ELSE IF metrics_data.d[UPDATE][K_LatencyDistribution].t # "list"
                  THEN [acc EXCEPT !.exc = "TypeError"]
             ELSE LET update_latencies ==
                          get_latency_values(metrics_data.d[UPDATE][K_LatencyDistribution].l)
                  IN  IF update_latencies = <<>>
                      THEN CollectSamples(all_metrics, i + 1, acc)
                      ELSE CollectSamples(all_metrics, i + 1,
                              [acc EXCEPT !.labels = Append(@, db_name),
                                          !.data_to_plot = Append(@, update_latencies)])

generate_plot(all_metrics) ==
    LET c == CollectSamples(all_metrics, 1,
                [labels |-> <<>>, data_to_plot |-> <<>>, exc |-> "none"])
    IN  IF c.exc # "none"
        THEN [labels |-> c.labels, data_to_plot |-> c.data_to_plot, exc |-> c.exc,
              artifact |-> "absent", out |-> <<>>, err |-> <<>>]
        ELSE IF c.data_to_plot = <<>>
        THEN [labels |-> c.labels, data_to_plot |-> c.data_to_plot, exc |-> "none",
              artifact |-> "placeholder", out |-> <<>>,
              err |-> <<"No UPDATE latency data available to generate plot.">>]
        ELSE [labels |-> c.labels, data_to_plot |-> c.data_to_plot, exc |-> "none",
              artifact |-> "boxplot", out |-> <<"Plot generated">>, err |-> <<>>]

(***************************************************************************)
(* generate_markdown_report, lines 89-121.                                 *)
(***************************************************************************)
\* The order of str values: by code point, a prefix before its extensions.
Alphabet ==
    <<"A","B","C","D","E","F","G","H","I","J","K","L","M","N","O","P","Q","R","S",
      "T","U","V","W","X","Y","Z","a","b","c","d","e","f","g","h","i","j","k","l",
      "m","n","o","p","q","r","s","t","u","v","w","x","y","z">>

ord(c) == CHOOSE i \in 1..Len(Alphabet) : Alphabet[i] = c

RECURSIVE StrLess(_, _)
StrLess(a, b) ==
    IF b = <<>> THEN FALSE
    ELSE IF a = <<>> THEN TRUE
    ELSE IF a[1] = b[1] THEN StrLess(Tail(a), Tail(b))
    ELSE ord(a[1]) < ord(b[1])

\* sorted(all_metrics.items()): the keys differ, so the values never compare.
RECURSIVE Insert(_, _)
Insert(item, items) ==
    IF items = <<>> THEN <<item>>
    ELSE IF StrLess(item[1], items[1][1]) THEN <<item>> \o items
    ELSE <<items[1]>> \o Insert(item, Tail(items))

RECURSIVE sorted(_)
sorted(items) ==
    IF items = <<>> THEN <<>> ELSE Insert(items[Len(items)], sorted(SubSeq(items, 1, Len(items) - 1)))

\* dict.get(key, default): the default only for a key that is not there.
Get(d, key, default) == IF key \in DOMAIN d THEN d[key] ELSE default

RECURSIVE NatStr(_)
NatStr(n) == IF n < 10 THEN <<Digits[n + 1]>> ELSE NatStr(n \div 10) \o <<Digits[(n % 10) + 1]>>

\* str() of a float of integral value.
FloatStr(x) == (IF x < 0 THEN <<"-">> \o NatStr(0 - x) ELSE NatStr(x)) \o <<".","0">>

Pad(s, width) == IF Len(s) >= width THEN s ELSE s \o [i \in 1..(width - Len(s)) |-> " "]

\* format(v, '<width'): None has no such format.
Format(v, width) ==
    CASE v.t = "None" -> [t |-> "TypeError"]
      [] v.t = "float" -> PyStr(Pad(FloatStr(v.f), width))
      [] v.t = "str" -> PyStr(Pad(v.s, width))

W_Database == 16
W_Throughput == 28
W_Update == 23
W_Read == 21

\* Lines 100-106: the text of one row, cell by cell, or the TypeError.
TableRow(db_name, metrics_data) ==
    IF metrics_data.t = "dict"
    THEN LET throughput == Get(metrics_data.d[OVERALL], K_Throughput, PyStr(NA))
             update_avg_latency == Get(metrics_data.d[UPDATE], K_AverageLatency, PyStr(NA))
             read_avg_latency == Get(metrics_data.d[READ], K_AverageLatency, PyStr(NA))
             cells == <<Format(PyStr(db_name), W_Database), Format(throughput, W_Throughput),
                        Format(update_avg_latency, W_Update),
                        Format(read_avg_latency, W_Read)>>
         IN  IF \E i \in 1..4 : cells[i].t = "TypeError" THEN [t |-> "TypeError"]
             ELSE [t |-> "row", cells |-> [i \in 1..4 |-> cells[i].s]]
    ELSE [t |-> "row",
          cells |-> <<Pad(db_name, W_Database), Pad(NA, W_Throughput), Pad(NA, W_Update),
                      Pad(NA, W_Read)>>]

\* Lines 99-106 on the sorted items: the rows written until one raises.
RECURSIVE TableRows(_, _)
TableRows(items, acc) ==
    IF items = <<>> THEN acc
    ELSE LET r == TableRow(items[1][1], items[1][2])
         IN  IF r.t = "TypeError" THEN [acc EXCEPT !.exc = "TypeError"]
             ELSE TableRows(Tail(items), [acc EXCEPT !.written = Append(@, r)])

Text(name) == [t |-> "text", name |-> name]

ReportHead ==
    <<Text("title"), Text("intro"), Text("summary heading"), Text("table header"),
      Text("table rule")>>

\* What md_file holds when the function ends, and how it ends; plot_exists
\* is os.path.exists(plot_image_path).
generate_markdown_report(all_metrics, plot_exists) ==
    LET rows == TableRows(sorted(all_metrics), [written |-> ReportHead, exc |-> "none"])
    IN  IF rows.exc # "none"
        THEN [md_file |-> rows.written, exc |-> rows.exc, out |-> <<>>]
        ELSE [md_file |-> rows.written
                    \o <<Text("blank"), Text("plot heading")>>
                    \o (IF plot_exists THEN <<Text("plot image"), Text("plot caption")>>
                        ELSE <<Text("no plot")>>)
                    \o <<Text("notes")>>,
              exc |-> "none",
              out |-> <<"Markdown report generated">>]

(***************************************************************************)
(* The state of one call of parse_ycsb_output, step by step.  The file is  *)
(* revealed as it is read: kind is what open() meets, read the lines the   *)
(* loop has consumed so far; the loop ends where the file does.            *)
(***************************************************************************)
VARIABLES pc, kind, read, metrics, current_section, exc, result, stderr

\* The driver, lines 123-147: where it is, the file each entry met, the
\* mapping's items in insertion order, what generate_plot collected and saved,
\* the report's lines, the lines printed, and the exception that ended the run.
VARIABLES dpc, db_files, all_db_metrics, labels, data_to_plot, plot_file, md_file,
          stdout, uncaught

\* One call of get_latency_values: its argument and its result.
VARIABLES lpc, latency_distribution, latencies

parser_vars == <<pc, kind, read, metrics, current_section, exc, result>>

driver_vars ==
    <<dpc, db_files, all_db_metrics, labels, data_to_plot, plot_file, md_file, stdout,
      uncaught>>

latency_vars == <<lpc, latency_distribution, latencies>>

vars == <<parser_vars, stderr, driver_vars, latency_vars>>

Unset == [t |-> "unset"]

Cur == [metrics |-> metrics, current_section |-> current_section, exc |-> exc]

ParserInit ==
    /\ pc = "open"
    /\ kind \in FileKinds
    /\ read = <<>>
    /\ metrics = InitialMetrics
    /\ current_section = None
    /\ exc = "none"
    /\ result = Unset

\* No call of parse_ycsb_output is being stepped through.
ParserIdle ==
    /\ pc = "idle"
    /\ kind = "ok"
    /\ read = <<>>
    /\ metrics = <<>>
    /\ current_section = None
    /\ exc = "none"
    /\ result = Unset

DriverInit ==
    /\ dpc = "parse"
    /\ db_files = <<>>
    /\ all_db_metrics = <<>>
    /\ labels = <<>>
    /\ data_to_plot = <<>>
    /\ plot_file = "absent"
    /\ md_file = <<>>
    /\ stdout = <<>>
    /\ uncaught = "none"

DriverIdle ==
    /\ dpc = "idle"
    /\ db_files = <<>>
    /\ all_db_metrics = <<>>
    /\ labels = <<>>
    /\ data_to_plot = <<>>
    /\ plot_file = "absent"
    /\ md_file = <<>>
    /\ stdout = <<>>
    /\ uncaught = "none"

\* The (latency, count) lists get_latency_values is called on.
Distributions ==
    UNION {[1..n -> (0..MaxLatency) \X ((0 - 1)..MaxCount)] : n \in 0..MaxRows}

LatencyInit ==
    /\ lpc = "call"
    /\ latency_distribution \in Distributions
    /\ latencies = <<>>

LatencyIdle ==
    /\ lpc = "idle"
    /\ latency_distribution = <<>>
    /\ latencies = <<>>

\* Line 21.
Open ==
    /\ pc = "open"
    /\ exc' = OpenError([kind |-> kind])
    /\ pc' = IF OpenError([kind |-> kind]) = "none" THEN "loop" ELSE "except"
    /\ UNCHANGED <<kind, read, metrics, current_section, result, stderr, driver_vars, latency_vars>>

\* One iteration of the loop of lines 22-41, on the next line of the file.
ReadLine ==
    /\ pc = "loop"
    /\ Len(read) < MaxLines
    /\ \E raw \in InputLines :
        /\ LET n == ParseLine(Cur, raw)
           IN  /\ metrics' = n.metrics
               /\ current_section' = n.current_section
               /\ exc' = n.exc
               /\ pc' = IF n.exc = "none" THEN "loop" ELSE "except"
        /\ read' = Append(read, raw)
    /\ UNCHANGED <<kind, result, stderr, driver_vars, latency_vars>>

\* Line 48, at the end of the file.
Return ==
    /\ pc = "loop"
    /\ result' = PyDict(metrics)
    /\ pc' = "returned"
    /\ UNCHANGED <<kind, read, metrics, current_section, exc, stderr, driver_vars, latency_vars>>

\* Lines 42-47.
Except ==
    /\ pc = "except"
    /\ LET h == Handler(exc)
       IN  /\ pc' = IF h = "uncaught" THEN "raised" ELSE "returned"
           /\ result' = IF h = "uncaught" THEN result ELSE None
           /\ stderr' =
                CASE h = "FileNotFoundError" -> Append(stderr, "Warning: File not found")
                  [] h = "Exception" -> Append(stderr, "Warning: Error parsing")
                  [] h = "uncaught" -> stderr
    /\ UNCHANGED <<kind, read, metrics, current_section, exc, driver_vars, latency_vars>>

ParserNext ==
    \/ Open
    \/ ReadLine
    \/ Return
    \/ Except

(***************************************************************************)
(* The driver.                                                             *)
(***************************************************************************)
ReadAverage9 == Join3(ReadMarker, K_AverageLatency, <<"9">>)
UpdateOperations5 == Join3(UpdateMarker, K_Operations, <<"5">>)

EmptyFile == OkFile(<<>>)
CanonicalFile == OkFile(<<CanonicalRunTime, CanonicalThroughput>>)
FullFile ==
    OkFile(<<NumericOverall, ReadAverage9, UpdateAverage7, UpdateOperations5, Row15, Row23>>)
ZeroOperationsFile ==
    OkFile(<<NumericOverall, ReadAverage9, UpdateAverage7, UpdateOperations0, Row15>>)
\* The files an entry of db_results_files may meet.
DriverFiles ==
    {MissingFile, DeniedFile, EmptyFile, CanonicalFile, FullFile, ZeroOperationsFile}

\* The warning parse_ycsb_output prints for a file, lines 43 and 46.
Warning(f) ==
    LET e0 == OpenError(f)
        st == IF e0 # "none" THEN Raise(InitialState, e0)
              ELSE ParseLines(InitialState, f.lines)
    IN  CASE Handler(st.exc) = "FileNotFoundError" -> <<"Warning: File not found">>
          [] Handler(st.exc) = "Exception" -> <<"Warning: Error parsing">>
          [] OTHER -> <<>>

\* Lines 134-137: one iteration of the loop, on the file f the entry meets.
Process ==
    /\ dpc = "parse"
    /\ \E f \in DriverFiles :
        LET db == db_results_files[Len(all_db_metrics) + 1]
            m == parse_ycsb_output(f)
        IN  /\ db_files' = Append(db_files, f)
            /\ stdout' = Append(stdout, "Processing")
            /\ stderr' = stderr \o Warning(f)
            /\ IF m.t = "raise"
               THEN /\ dpc' = "crashed"
                    /\ uncaught' = m.e
                    /\ UNCHANGED all_db_metrics
               ELSE /\ all_db_metrics' = Append(all_db_metrics, <<db, m>>)
                    /\ dpc' = IF Len(all_db_metrics) + 1 = Len(db_results_files)
                              THEN "plot" ELSE "parse"
                    /\ UNCHANGED uncaught
    /\ UNCHANGED <<labels, data_to_plot, plot_file, md_file, parser_vars, latency_vars>>

\* Line 142.
Plot ==
    /\ dpc = "plot"
    /\ LET r == generate_plot(all_db_metrics)
       IN  /\ labels' = r.labels
           /\ data_to_plot' = r.data_to_plot
           /\ plot_file' = r.artifact
           /\ stdout' = stdout \o r.out
           /\ stderr' = stderr \o r.err
           /\ uncaught' = r.exc
           /\ dpc' = IF r.exc = "none" THEN "report" ELSE "crashed"
    /\ UNCHANGED <<db_files, all_db_metrics, md_file, parser_vars, latency_vars>>

\* Line 143.
Report ==
    /\ dpc = "report"
    /\ LET r == generate_markdown_report(all_db_metrics, plot_file # "absent")
       IN  /\ md_file' = r.md_file
           /\ stdout' = stdout \o r.out
           /\ uncaught' = r.exc
           /\ dpc' = IF r.exc = "none" THEN "emit" ELSE "crashed"
    /\ UNCHANGED <<db_files, all_db_metrics, labels, data_to_plot, plot_file, stderr,
                   parser_vars, latency_vars>>

\* Lines 146-147.
Emit ==
    /\ dpc = "emit"
    /\ stdout' = stdout \o <<"::set-output name=report_file::benchmark_report.md",
                             "::set-output name=plot_file::latency_comparison_plot.png">>
    /\ dpc' = "done"
    /\ UNCHANGED <<db_files, all_db_metrics, labels, data_to_plot, plot_file, md_file,
                   uncaught, stderr, parser_vars, latency_vars>>

DriverNext ==
    \/ Process
    \/ Plot
    \/ Report
    \/ Emit

\* The call of get_latency_values.
Expand ==
    /\ lpc = "call"
    /\ latencies' = get_latency_values(latency_distribution)
    /\ lpc' = "done"
    /\ UNCHANGED <<latency_distribution, parser_vars, stderr, driver_vars>>

(***************************************************************************)
(* The specifications: one call of the parser, one run of the driver, one  *)
(* call of get_latency_values.                                             *)
(***************************************************************************)
Init == ParserInit /\ stderr = <<>> /\ DriverIdle /\ LatencyIdle

Next == ParserNext

Spec == Init /\ [][Next]_vars

InitDriver == DriverInit /\ stderr = <<>> /\ ParserIdle /\ LatencyIdle

SpecDriver == InitDriver /\ [][DriverNext]_vars

InitLatency == LatencyInit /\ stderr = <<>> /\ ParserIdle /\ DriverIdle

SpecLatency == InitLatency /\ [][Expand]_vars

(***************************************************************************)
(* What a file says, read off its lines without running the parser.        *)
(***************************************************************************)
IsOverallLine(l) == startswith(l, OverallMarker)

IsMarkerLine(l) == startswith(l, UpdateMarker) \/ startswith(l, ReadMarker)

\* The index of the last UPDATE/READ marker line among the first n lines, or 0.
LastMarker(lines, n) ==
    LET S == {j \in 1..n : IsMarkerLine(strip(lines[j]))}
    IN  IF S = {} THEN 0 ELSE CHOOSE j \in S : \A k \in S : k <= j

\* The section the last marker line among the first n lines begins with;
\* <<>> when there is none.
MarkerNamed(lines, n) ==
    LET j == LastMarker(lines, n)
    IN  IF j = 0 THEN <<>>
        ELSE IF startswith(strip(lines[j]), UpdateMarker) THEN UPDATE ELSE READ

\* The last marker line among the first n lines has exactly the tag [s] as its
\* first ', '-separated field.
InSection(lines, n, s) ==
    LET j == LastMarker(lines, n)
    IN  j # 0 /\ split(strip(lines[j]), CommaSpace)[1] = <<"[">> \o s \o <<"]">>

\* Line i is a histogram-shaped row inside section s.
RowAt(lines, i, s) ==
    LET l == strip(lines[i])
    IN  /\ ~IsOverallLine(l)
        /\ ~IsMarkerLine(l)
        /\ LooksLikeHistogramRow(l)
        /\ InSection(lines, i - 1, s)

\* A row of exactly two integers.
WellFormed(l) ==
    LET fields == split(l, Comma)
    IN  Len(fields) = 2 /\ int(fields[1]) # ValueError /\ int(fields[2]) # ValueError

PairOf(l) == LET fields == split(l, Comma) IN <<int(fields[1]).n, int(fields[2]).n>>

MalformedRowAt(lines, i) ==
    \E s \in {UPDATE, READ} : RowAt(lines, i, s) /\ ~WellFormed(strip(lines[i]))

\* The well-formed rows of section s among the first n lines, in file order.
RECURSIVE WellFormedRows(_, _, _)
WellFormedRows(s, lines, n) ==
    IF n = 0 THEN <<>>
    ELSE IF RowAt(lines, n, s) /\ WellFormed(strip(lines[n]))
         THEN Append(WellFormedRows(s, lines, n - 1), PairOf(strip(lines[n])))
    ELSE WellFormedRows(s, lines, n - 1)

\* A marker line of section s stores its value under the key LatencyDistribution.
Overwritten(s, lines) ==
    \E j \in 1..Len(lines) :
        LET parts == split(strip(lines[j]), CommaSpace)
        IN  /\ IsMarkerLine(strip(lines[j]))
            /\ parts[1] = <<"[">> \o s \o <<"]">>
            /\ Len(parts) >= 3
            /\ parts[2] = K_LatencyDistribution

Distribution(m, s) == m[s][K_LatencyDistribution]

(***************************************************************************)
(* C1: a file of canonical lines [OVERALL], RunTime(ms), r and             *)
(* [OVERALL], Throughput(ops/sec), t parses to a record, not to None, and  *)
(* the record's OVERALL runtime is r and its OVERALL throughput is t for   *)
(* the lines the parser has met.                                           *)
(***************************************************************************)
IsLineOf(lines, l) == \E i \in 1..Len(lines) : lines[i] = l

C1_CanonicalOverallParsed ==
    (/\ pc = "returned"
     /\ kind = "ok"
     /\ read # <<>>
     /\ \A i \in 1..Len(read) : read[i] \in {CanonicalRunTime, CanonicalThroughput})
        => /\ result.t = "dict"
           /\ IsLineOf(read, CanonicalRunTime)
                => result.d[OVERALL][K_RunTime] = PyFloat(12)
           /\ IsLineOf(read, CanonicalThroughput)
                => result.d[OVERALL][K_Throughput] = PyFloat(34)

(***************************************************************************)
(* C2: whatever the file, parse_ycsb_output lets no exception escape, and  *)
(* returns the complete record when nothing was raised and None when       *)
(* something was: never a record after a failure.                          *)
(***************************************************************************)
CompleteRecord(r) ==
    /\ r.t = "dict"
    /\ DOMAIN r.d = {OVERALL, UPDATE, READ}
    /\ {K_RunTime, K_Throughput} \subseteq DOMAIN r.d[OVERALL]
    /\ \A s \in {UPDATE, READ} : SectionKeys \subseteq DOMAIN r.d[s]

C2_ParserNeverRaises ==
    /\ pc # "raised"
    /\ pc = "returned" => IF exc = "none" THEN CompleteRecord(result) ELSE result = None

C2_Witness == pc = "returned" /\ exc = "KeyError" /\ result = None

OtherSection(s) == IF s = UPDATE THEN READ ELSE UPDATE

Appended(s) ==
    /\ Distribution(metrics', s) # Distribution(metrics, s)
    /\ Distribution(metrics', s).t = "list"

C9_RowsOnlyToCurrentSection ==
    [][\A s \in {UPDATE, READ} :
          Appended(s) =>
              /\ current_section = PyStr(s)
              /\ MarkerNamed(read, Len(read)) = s
              /\ ~IsMarkerLine(strip(read'[Len(read')]))
              /\ Distribution(metrics, s).t = "list"
              /\ Distribution(metrics', s).l
                    = Append(Distribution(metrics, s).l, PairOf(strip(read'[Len(read')])))
              /\ metrics'[OtherSection(s)] = metrics[OtherSection(s)]]_vars

C9_Witness ==
    /\ read = <<ReadMarker, UpdateTwoFields, Row15>>
    /\ Distribution(metrics, UPDATE) = PyList(<< <<1, 5>> >>)
    /\ Distribution(metrics, READ) = PyList(<<>>)

(***************************************************************************)
(* C10: the current section is None until a marker line is read, and       *)
(* after that the tag, UPDATE or READ, of the most recent line that begins *)
(* with [UPDATE] or [READ]; no other line changes it.                      *)
(***************************************************************************)
C10_SectionIsNoneUpdateOrRead ==
    current_section =
        IF MarkerNamed(read, Len(read)) = <<>> THEN None
        ELSE PyStr(MarkerNamed(read, Len(read)))

(***************************************************************************)
(* C3: the report is written to its end, with one table row per database,  *)
(* and each metric cell of a row holds the field's value, or N/A when the  *)
(* record is None or that field of the record is None.                     *)
(***************************************************************************)
ReportOver == dpc \in {"emit", "done"} \/ (dpc = "crashed" /\ md_file # <<>>)

ExpectedCell(m, sec, key) ==
    IF m.t = "dict" /\ m.d[sec][key] # None THEN FloatStr(m.d[sec][key].f) ELSE NA

C3_ReportCells ==
    ReportOver =>
        /\ md_file[Len(md_file)] = Text("notes")
        /\ Cardinality({i \in 1..Len(md_file) : md_file[i].t = "row"})
              = Len(db_results_files)
        /\ \A i \in 1..Len(all_db_metrics) :
              \E j \in 1..Len(md_file) :
                  /\ md_file[j].t = "row"
                  /\ strip(md_file[j].cells[1]) = all_db_metrics[i][1]
                  /\ strip(md_file[j].cells[2])
                        = ExpectedCell(all_db_metrics[i][2], OVERALL, K_Throughput)
                  /\ strip(md_file[j].cells[3])
                        = ExpectedCell(all_db_metrics[i][2], UPDATE, K_AverageLatency)
                  /\ strip(md_file[j].cells[4])
                        = ExpectedCell(all_db_metrics[i][2], READ, K_AverageLatency)

(***************************************************************************)
(* C4: whatever each database's parse gave, the run ends normally, having  *)
(* parsed the five entries, saved the plot, written the report and printed *)
(* the report_file and plot_file lines, in this order.                     *)
(***************************************************************************)
C4_RunTerminatesNormally ==
    /\ dpc # "crashed"
    /\ dpc = "done" =>
          /\ Len(all_db_metrics) = Len(db_results_files)
          /\ plot_file # "absent"
          /\ md_file # <<>>
          /\ SubSeq(stdout, Len(stdout) - 1, Len(stdout))
                = <<"::set-output name=report_file::benchmark_report.md",
                    "::set-output name=plot_file::latency_comparison_plot.png">>

(***************************************************************************)
(* C5: once generate_plot is over, a database is among the labels exactly  *)
(* when its record is present, its UPDATE Operations is not None and its   *)
(* UPDATE LatencyDistribution is not empty; the placeholder is saved       *)
(* exactly when no database is, and an artifact is saved either way.       *)
(***************************************************************************)
PlotOver ==
    /\ dpc \in {"report", "emit", "done", "crashed"}
    /\ Len(all_db_metrics) = Len(db_results_files)

Qualifies(m) ==
    /\ m.t = "dict"
    /\ m.d[UPDATE][K_Operations] # None
    /\ m.d[UPDATE][K_LatencyDistribution] # PyList(<<>>)

C5_PlotSelection ==
    PlotOver =>
        /\ plot_file # "absent"
        /\ \A i \in 1..Len(all_db_metrics) :
              (\E j \in 1..Len(labels) : labels[j] = all_db_metrics[i][1])
                  <=> Qualifies(all_db_metrics[i][2])
        /\ plot_file = "placeholder"
              <=> ~\E i \in 1..Len(all_db_metrics) : Qualifies(all_db_metrics[i][2])

(***************************************************************************)
(* C6: the mapping gets a key for every configured database, in the        *)
(* order of the configuration; the value is None exactly for a file that   *)
(* is missing, unreadable or unparseable (a line of it raises), and        *)
(* otherwise a complete record, also for an empty file and for a file      *)
(* that reports zero operations, whose Operations is then 0.0, not None.   *)
(***************************************************************************)
\* Line i raises: text that cannot be decoded, a non-numeric value, a marker
\* whose tag is no section, or a row for a LatencyDistribution that a marker
\* line has overwritten.
RaisesAt(lines, i) ==
    LET l == strip(lines[i])
        parts == split(l, CommaSpace)
    IN  \/ Contains(lines[i], InvalidByte)
        \/ /\ IsOverallLine(l)
           /\ Len(parts) = 3
           /\ (float(parts[2]) = ValueError \/ float(parts[3]) = ValueError)
        \/ /\ IsMarkerLine(l)
           /\ Len(parts) >= 3
           /\ (float(parts[3]) = ValueError \/ parts[1] \notin {UpdateMarker, ReadMarker})
        \/ \E s \in {UPDATE, READ} :
              /\ RowAt(lines, i, s)
              /\ WellFormed(l)
              /\ Overwritten(s, SubSeq(lines, 1, i - 1))

Unavailable(f) == f.kind # "ok" \/ \E i \in 1..Len(f.lines) : RaisesAt(f.lines, i)

RECURSIVE SumOver(_, _)
SumOver(f, n) == IF n = 0 THEN 0 ELSE f[n] + SumOver(f, n - 1)

Occurrences(seq, v) == Cardinality({i \in 1..Len(seq) : seq[i] = v})

CountsOf(dist, v) ==
    SumOver([i \in 1..Len(dist) |-> IF dist[i][1] = v THEN dist[i][2] ELSE 0], Len(dist))

RowOrders(n) == {p \in [1..n -> 1..n] : \A i, j \in 1..n : p[i] = p[j] => i = j}

SameMultisetForEveryOrder(dist) ==
    \A p \in RowOrders(Len(dist)) :
        \A v \in 0..MaxLatency :
            Occurrences(get_latency_values([i \in 1..Len(dist) |-> dist[p[i]]]), v)
                = Occurrences(get_latency_values(dist), v)

C8_Original ==
    lpc = "done" =>
        /\ Len(latencies)
              = SumOver([i \in 1..Len(latency_distribution) |-> latency_distribution[i][2]],
                        Len(latency_distribution))
        /\ \A v \in 0..MaxLatency :
              Occurrences(latencies, v) = CountsOf(latency_distribution, v)
        /\ SameMultisetForEveryOrder(latency_distribution)

(***************************************************************************)
(* C8, amended: a pair (value, count) contributes count repetitions of     *)
(* value when count is positive and none otherwise; the length is the sum  *)
(* of the positive counts, each value occurs as often as the positive      *)
(* counts of its rows sum to, and the multiset is the same for every       *)
(* permutation of the rows.                                                *)
(***************************************************************************)
Positive(n) == IF n > 0 THEN n ELSE 0

PositiveCountsOf(dist, v) ==
    SumOver([i \in 1..Len(dist) |-> IF dist[i][1] = v THEN Positive(dist[i][2]) ELSE 0],
            Len(dist))

C8_ExpansionCounts ==
    lpc = "done" =>
        /\ Len(latencies)
              = SumOver([i \in 1..Len(latency_distribution) |->
                            Positive(latency_distribution[i][2])],
                        Len(latency_distribution))
        /\ \A v \in 0..MaxLatency :
              Occurrences(latencies, v) = PositiveCountsOf(latency_distribution, v)
        /\ \A i \in 1..Len(latencies) : latencies[i] \in 0..MaxLatency
        /\ SameMultisetForEveryOrder(latency_distribution)

C8_Witness ==
    /\ lpc = "done"
    /\ latency_distribution = << <<1, 5>>, <<2, 3>> >>
    /\ Len(latencies) = 8
    /\ Occurrences(latencies, 1) = 5
    /\ Occurrences(latencies, 2) = 3

=============================================================================
